---------------------------- MODULE Spec2Model ----------------------------
(***************************************************************************)
(* A model of the Risk dice simulator (risk-dice-simulator.py) and of the  *)
(* per-line parser of its companion analyze-simulator-output.py.           *)
(*                                                                         *)
(* The simulator's state is held in variables named as in the source.  A   *)
(* second process of the same program (used only by SpecPair, which runs   *)
(* the program twice on the same inputs) is held in the record run2, whose *)
(* fields carry the same names.  Every step of the program is written once *)
(* as an operator from a process state to its successor (startup,          *)
(* begin_trial, loop_body, end_trial, finish) and applied to either        *)
(* process.  Debug printing and the optional header line are left out:     *)
(* they change none of the modelled state.                                 *)
(***************************************************************************)
EXTENDS Integers, Sequences, FiniteSets, TLC

\* ------------------------------------------------------------ constants
\* Program constants.
Sides == 6
MAX_ATTACKERS == 3
STANDARD_DEFENDERS == 2
CAPITAL_DEFENDERS == 3
UNPACK_TARGETS == 5

\* Bounds of the model.
MaxAttack == 4
MaxDefend == 3
BelowZero == 1
MaxTrials == 1
MaxSeed == 1
MaxElapsed == 1
PairTrials == 2

VARIABLES
    args,                   \* the parsed command line (both processes)
    pc,                     \* position of the simulator in main
    MAX_DEFENDERS,          \* global
    precomputed,            \* global PRECOMPUTED_ROLLS, as the calls that filled it
    seeded,                 \* random.seed() has been called with args.random_seed
    trial,                  \* main's loop variable
    attacking_troops,       \* simulate_battle's locals ...
    defending_troops,
    total_attacker_losses,
    total_defender_losses,
    maximum_rolls,
    non_maximum_rolls,
    attacker_losses,
    defender_losses,
    is_max_roll,
    output,                 \* the lines written so far
    attacker_rolls,         \* roll_dice's two lists, as the caller sees them
    defender_rolls,
    call_args,              \* the two lists as they were when calculate_losses was called
    an_pc,                  \* position of the analysis tool
    an_line,                \* lines of the file it has read
    count,                  \* the analysis tool's locals ...
    min_diff,
    max_diff,
    total_diff,
    run2,                   \* a second process of the simulator
    rng_sync                \* the two processes' generators are in the same state

simVars == <<pc, MAX_DEFENDERS, precomputed, seeded, trial, attacking_troops,
             defending_troops, total_attacker_losses, total_defender_losses,
             maximum_rolls, non_maximum_rolls, attacker_losses, defender_losses,
             is_max_roll, output>>
lossVars == <<attacker_rolls, defender_rolls, call_args>>
anVars == <<an_pc, an_line, count, min_diff, max_diff, total_diff>>
pairVars == <<run2, rng_sync>>
vars == <<args, simVars, lossVars, anVars, pairVars>>

Min(a, b) == IF a < b THEN a ELSE b

RECURSIVE Pow(_, _)
Pow(b, e) == IF e = 0 THEN 1 ELSE b * Pow(b, e - 1)

\* ------------------------------------------------------ calculate_losses
\* list.sort(reverse=True): the elements in descending order.
RECURSIVE InsertDesc(_, _)
InsertDesc(x, s) ==
    IF s = <<>> THEN <<x>>
    ELSE IF x >= Head(s) THEN <<x>> \o s
    ELSE <<Head(s)>> \o InsertDesc(x, Tail(s))

SortDesc_NoSort(s) == s

RECURSIVE SortDesc(_)
SortDesc(s) == IF s = <<>> THEN <<>> ELSE InsertDesc(Head(s), SortDesc(Tail(s)))

\* The comparison of one pair of dice: TRUE when the defender loses a troop.
AttackerWins_TiesToo(a, d) == a >= d

AttackerWins(a, d) == a > d

\* The for loop of calculate_losses over the paired positions i (1-based here).
RECURSIVE CompareLoop(_, _, _, _, _)
CompareLoop(a, d, i, al, dl) ==
    IF i > Min(Len(a), Len(d)) THEN [attacker_losses |-> al, defender_losses |-> dl]
    ELSE IF AttackerWins(a[i], d[i]) THEN CompareLoop(a, d, i + 1, al, dl + 1)
    ELSE CompareLoop(a, d, i + 1, al + 1, dl)

\* The pair returned, and the two argument lists as the call leaves them
\* (the lists are sorted in place).
calculate_losses(attacker_rolls_, defender_rolls_) ==
    LET a == SortDesc(attacker_rolls_)
        d == SortDesc(defender_rolls_)
        r == CompareLoop(a, d, 1, 0, 0)
    IN  [attacker_losses |-> r.attacker_losses,
         defender_losses |-> r.defender_losses,
         attacker_rolls |-> a,
         defender_rolls |-> d]

\* --------------------------------------------- precompute_max_dice_rolls
\* The nested for loops: dice holds the loop variables bound so far, and the
\* innermost body appends one entry.
RECURSIVE Enumerate(_, _, _)
RECURSIVE ForEachFace(_, _, _, _)
Enumerate(dice, remaining, defenders) ==
    IF remaining = 0
    THEN LET r == calculate_losses(SubSeq(dice, 1, MAX_ATTACKERS),
                                   SubSeq(dice, MAX_ATTACKERS + 1, MAX_ATTACKERS + defenders))
         IN  << <<r.attacker_losses, r.defender_losses>> >>
    ELSE ForEachFace(1, dice, remaining, defenders)
ForEachFace(face, dice, remaining, defenders) ==
    IF face > Sides THEN <<>>
    ELSE Enumerate(Append(dice, face), remaining - 1, defenders)
            \o ForEachFace(face + 1, dice, remaining, defenders)

precompute_AlwaysCapital(maxDefenders) ==
    Enumerate(<<>>, MAX_ATTACKERS + CAPITAL_DEFENDERS, CAPITAL_DEFENDERS)

precompute_IgnoresCapital(maxDefenders) ==
    Enumerate(<<>>, MAX_ATTACKERS + STANDARD_DEFENDERS, STANDARD_DEFENDERS)

\* The entries the call appends when MAX_DEFENDERS = maxDefenders.
precompute_max_dice_rolls(maxDefenders) ==
    LET defenders == IF maxDefenders = CAPITAL_DEFENDERS
                     THEN CAPITAL_DEFENDERS ELSE STANDARD_DEFENDERS
    IN  Enumerate(<<>>, MAX_ATTACKERS + defenders, defenders)

\* precompute_max_dice_rolls for the two values MAX_DEFENDERS takes, evaluated once.
PrecomputedFor == [m \in {STANDARD_DEFENDERS, CAPITAL_DEFENDERS} |->
                        precompute_max_dice_rolls(m)]

\* The list PRECOMPUTED_ROLLS.  Only precompute_max_dice_rolls writes the list, and
\* only by appending to it, so the state holds the value MAX_DEFENDERS had at each
\* call (the variable precomputed), and the list is what those calls appended.
RECURSIVE RollsOf(_)
RollsOf(calls) ==
    IF calls = <<>> THEN <<>>
    ELSE IF Len(calls) = 1 THEN PrecomputedFor[calls[1]]
    ELSE RollsOf(SubSeq(calls, 1, Len(calls) - 1)) \o PrecomputedFor[calls[Len(calls)]]


\* -------------------------------------------------------------- roll_dice
\* [roll_one_die() for _ in range(n)]: the lists n calls of random.randint(1, 6)
\* can produce (range(n) is empty for n <= 0).
Rolls(n) == [1..n -> 1..Sides]

\* What lines 160-162 can yield with the given numbers of dice, evaluated once.
Losses(r) == [attacker_losses |-> r.attacker_losses, defender_losses |-> r.defender_losses]

LiveOutcomes == [na \in 0..MAX_ATTACKERS |-> [nd \in 0..CAPITAL_DEFENDERS |->
                    {Losses(calculate_losses(ar, dr)) : ar \in Rolls(na), dr \in Rolls(nd)}]]

DiceRolled(n) == IF n < 0 THEN 0 ELSE n

IsMaxRoll_AttackersOnly(attackers, defenders, maxDefenders) ==
    attackers >= MAX_ATTACKERS

\* is_max_roll (line 153).
IsMaxRoll(attackers, defenders, maxDefenders) ==
    attackers >= MAX_ATTACKERS /\ defenders >= maxDefenders

\* The branch of line 155: the round is resolved by a table lookup.
UsesTable(attacking_troops_, defending_troops_, maxDefenders, table) ==
    LET attackers == Min(attacking_troops_, MAX_ATTACKERS)
        defenders == Min(defending_troops_, maxDefenders)
    IN  Len(table) > 0 /\ IsMaxRoll(attackers, defenders, maxDefenders)

\* The value roll_dice returns when random.randint(0, len-1) yields index.
TableResult(attacking_troops_, defending_troops_, maxDefenders, table, index) ==
    LET attackers == Min(attacking_troops_, MAX_ATTACKERS)
        defenders == Min(defending_troops_, maxDefenders)
    IN  [attacker_losses |-> table[index + 1][1],
         defender_losses |-> table[index + 1][2],
         is_max_roll |-> IsMaxRoll(attackers, defenders, maxDefenders)]

\* The value roll_dice returns when the dice rolled compare to losses.
LiveResult(attacking_troops_, defending_troops_, maxDefenders, table, losses) ==
    LET attackers == Min(attacking_troops_, MAX_ATTACKERS)
        defenders == Min(defending_troops_, maxDefenders)
    IN  [attacker_losses |-> losses.attacker_losses,
         defender_losses |-> losses.defender_losses,
         is_max_roll |-> IsMaxRoll(attackers, defenders, maxDefenders)]

\* The values roll_dice can return, over every index or every roll of the dice.
roll_dice(attacking_troops_, defending_troops_, maxDefenders, table) ==
    LET attackers == Min(attacking_troops_, MAX_ATTACKERS)
        defenders == Min(defending_troops_, maxDefenders)
    IN  IF UsesTable(attacking_troops_, defending_troops_, maxDefenders, table)
        THEN {TableResult(attacking_troops_, defending_troops_, maxDefenders, table, index) :
                index \in 0..(Len(table) - 1)}
        ELSE {LiveResult(attacking_troops_, defending_troops_, maxDefenders, table, losses) :
                losses \in LiveOutcomes[DiceRolled(attackers)][DiceRolled(defenders)]}

\* ------------------------------------------------- one simulator process
\* The state of the first process, as a record with the fields of run2.
Self ==
    [pc |-> pc, MAX_DEFENDERS |-> MAX_DEFENDERS, precomputed |-> precomputed,
     seeded |-> seeded, trial |-> trial,
     attacking_troops |-> attacking_troops, defending_troops |-> defending_troops,
     total_attacker_losses |-> total_attacker_losses,
     total_defender_losses |-> total_defender_losses,
     maximum_rolls |-> maximum_rolls, non_maximum_rolls |-> non_maximum_rolls,
     attacker_losses |-> attacker_losses, defender_losses |-> defender_losses,
     is_max_roll |-> is_max_roll, output |-> output]

\* The first process takes the state n.
Set(n) ==
    /\ pc' = n.pc
    /\ MAX_DEFENDERS' = n.MAX_DEFENDERS
    /\ precomputed' = n.precomputed
    /\ seeded' = n.seeded
    /\ trial' = n.trial
    /\ attacking_troops' = n.attacking_troops
    /\ defending_troops' = n.defending_troops
    /\ total_attacker_losses' = n.total_attacker_losses
    /\ total_defender_losses' = n.total_defender_losses
    /\ maximum_rolls' = n.maximum_rolls
    /\ non_maximum_rolls' = n.non_maximum_rolls
    /\ attacker_losses' = n.attacker_losses
    /\ defender_losses' = n.defender_losses
    /\ is_max_roll' = n.is_max_roll
    /\ output' = n.output

\* The first process starts in the state n.
Starts(n) ==
    /\ pc = n.pc
    /\ MAX_DEFENDERS = n.MAX_DEFENDERS
    /\ precomputed = n.precomputed
    /\ seeded = n.seeded
    /\ trial = n.trial
    /\ attacking_troops = n.attacking_troops
    /\ defending_troops = n.defending_troops
    /\ total_attacker_losses = n.total_attacker_losses
    /\ total_defender_losses = n.total_defender_losses
    /\ maximum_rolls = n.maximum_rolls
    /\ non_maximum_rolls = n.non_maximum_rolls
    /\ attacker_losses = n.attacker_losses
    /\ defender_losses = n.defender_losses
    /\ is_max_roll = n.is_max_roll
    /\ output = n.output

\* A process as the interpreter starts it: the module's globals, main's and
\* simulate_battle's locals not yet bound (0, FALSE stand for unbound).
Fresh ==
    [pc |-> "start", MAX_DEFENDERS |-> STANDARD_DEFENDERS, precomputed |-> <<>>,
     seeded |-> FALSE, trial |-> 0,
     attacking_troops |-> 0, defending_troops |-> 0,
     total_attacker_losses |-> 0, total_defender_losses |-> 0,
     maximum_rolls |-> 0, non_maximum_rolls |-> 0,
     attacker_losses |-> 0, defender_losses |-> 0,
     is_max_roll |-> FALSE, output |-> <<>>]

SeedsGenerator_Never(random_seed) == FALSE

\* Line 50: random.seed is called.
SeedsGenerator(random_seed) == random_seed # 0

\* main, lines 42-51.
startup(s) ==
    LET maxDefenders == IF args.capital THEN CAPITAL_DEFENDERS ELSE s.MAX_DEFENDERS
        calls == IF ~args.no_precomputed_rolls
                 THEN Append(s.precomputed, maxDefenders)
                 ELSE s.precomputed
    IN  [s EXCEPT !.MAX_DEFENDERS = maxDefenders,
                  !.precomputed = calls,
                  !.seeded = SeedsGenerator(args.random_seed),
                  !.pc = "trials"]

\* for trial in range(args.trials): another trial is left.
MoreTrials(s) == s.trial < args.trials

\* The call of line 69 up to the while: lines 173-178.
begin_trial(s) ==
    [s EXCEPT !.attacking_troops = args.attacking_troops,
              !.defending_troops = args.defending_troops,
              !.total_attacker_losses = 0,
              !.total_defender_losses = 0,
              !.non_maximum_rolls = 0,
              !.maximum_rolls = 0,
              !.pc = "battle"]

LoopCond_KeepsTwo(attacking_troops_, defending_troops_) ==
    attacking_troops_ > 2 /\ defending_troops_ > 0

\* The while condition of line 183.
LoopCond(attacking_troops_, defending_troops_) ==
    attacking_troops_ > 1 /\ defending_troops_ > 0

CommittedTroops_All(attacking_troops_) == attacking_troops_

\* The first argument of the call of line 184.
CommittedTroops(attacking_troops_) == attacking_troops_ - 1

int(b) == IF b THEN 1 ELSE 0

\* The values roll_dice can return in state s.
RoundResults(s) ==
    roll_dice(CommittedTroops(s.attacking_troops), s.defending_troops,
              s.MAX_DEFENDERS, RollsOf(s.precomputed))

\* One iteration of the while loop, lines 184-191, roll_dice having returned r.
loop_body(s, r) ==
    [s EXCEPT !.attacker_losses = r.attacker_losses,
              !.defender_losses = r.defender_losses,
              !.is_max_roll = r.is_max_roll,
              !.total_attacker_losses = @ + r.attacker_losses,
              !.total_defender_losses = @ + r.defender_losses,
              !.non_maximum_rolls = @ + 1 - int(r.is_max_roll),
              !.maximum_rolls = @ + int(r.is_max_roll),
              !.attacking_troops = @ - r.attacker_losses,
              !.defending_troops = @ - r.defender_losses]

\* str(n) of an integer: its digits, no '.'.
Str(n) == [int |-> n]

\* f"{elapsed_time:.2f}": hundredths of a millisecond, written with a '.'.
Fixed2(hundredths) == [fixed2 |-> hundredths]

\* The line of line 73, as the fields that "," separates.
ResultLine(s, elapsed) ==
    <<Str(s.total_attacker_losses), Str(s.total_defender_losses),
      Str(s.total_defender_losses - s.total_attacker_losses),
      Str(s.maximum_rolls), Str(s.non_maximum_rolls), Fixed2(elapsed)>>

\* The return of line 193 and lines 70-77; the loop variable advances.
end_trial(s, elapsed) ==
    [s EXCEPT !.output = Append(@, ResultLine(s, elapsed)),
              !.trial = @ + 1,
              !.pc = "trials"]

\* Lines 79-81.
finish(s) == [s EXCEPT !.pc = "done"]

\* ------------------------------------------------------ the analysis tool
\* float(x) if '.' in x else int(x): the number, in hundredths when a float.
Convert(field) ==
    IF "fixed2" \in DOMAIN field THEN [float100 |-> field.fixed2] ELSE [int |-> field.int]

AnalyzerIdle ==
    /\ an_pc = "reading" /\ an_line = 0
    /\ count = 0 /\ min_diff = 0 /\ max_diff = 0 /\ total_diff = 0

\* ------------------------------------------------------------------ Spec
\* One run of the simulator, then the analysis tool on what it wrote.
Args ==
    [attacking_troops : (0 - BelowZero)..MaxAttack,
     defending_troops : (0 - BelowZero)..MaxDefend,
     capital : BOOLEAN,
     trials : 0..MaxTrials,
     random_seed : 0..MaxSeed,
     no_precomputed_rolls : BOOLEAN]

NoCall == attacker_rolls = <<>> /\ defender_rolls = <<>> /\ call_args = <<>>

Init ==
    /\ args \in Args
    /\ Starts(Fresh)
    /\ NoCall
    /\ AnalyzerIdle
    /\ run2 = Fresh
    /\ rng_sync = FALSE

\* The list PRECOMPUTED_ROLLS of the first process.
PRECOMPUTED_ROLLS == RollsOf(precomputed)

\* Only the simulator moves.
Alone == UNCHANGED <<args, lossVars, anVars, pairVars>>

Startup ==
    /\ pc = "start"
    /\ Set(startup(Self))
    /\ Alone

BeginTrial ==
    /\ pc = "trials"
    /\ MoreTrials(Self)
    /\ Set(begin_trial(Self))
    /\ Alone

Round ==
    /\ pc = "battle"
    /\ LoopCond(attacking_troops, defending_troops)
    /\ \E r \in RoundResults(Self) : Set(loop_body(Self, r))
    /\ Alone

EndTrial ==
    /\ pc = "battle"
    /\ ~LoopCond(attacking_troops, defending_troops)
    /\ \E elapsed \in 0..MaxElapsed : Set(end_trial(Self, elapsed))
    /\ Alone

Finish ==
    /\ pc = "trials"
    /\ ~MoreTrials(Self)
    /\ Set(finish(Self))
    /\ Alone

\* analyze-simulator-output.py, line 42 and lines 45-56: one line of the file.
\* Unpacking raises ValueError unless the line has as many fields as targets.
AnalyzeLine ==
    /\ pc = "done"
    /\ an_pc = "reading"
    /\ an_line < Len(output)
    /\ LET fields == [i \in 1..Len(output[an_line + 1]) |-> Convert(output[an_line + 1][i])]
           diff == fields[3].int
       IN  IF Len(fields) # UNPACK_TARGETS
           THEN /\ an_pc' = "ValueError"
                /\ UNCHANGED <<an_line, count, min_diff, max_diff, total_diff>>
           ELSE /\ an_line' = an_line + 1
                /\ count' = count + 1
                /\ min_diff' = IF count' = 1 THEN diff ELSE Min(min_diff, diff)
                /\ max_diff' = IF count' = 1 THEN diff ELSE 0 - Min(0 - max_diff, 0 - diff)
                /\ total_diff' = IF count' = 1 THEN diff ELSE total_diff + diff
                /\ UNCHANGED an_pc
    /\ UNCHANGED <<args, simVars, lossVars, pairVars>>

\* Lines 58-80: the file is read to its end.
AnalyzeReport ==
    /\ pc = "done"
    /\ an_pc = "reading"
    /\ an_line = Len(output)
    /\ an_pc' = "reported"
    /\ UNCHANGED <<an_line, count, min_diff, max_diff, total_diff>>
    /\ UNCHANGED <<args, simVars, lossVars, pairVars>>

Next ==
    \/ Startup
    \/ BeginTrial
    \/ Round
    \/ EndTrial
    \/ Finish
    \/ AnalyzeLine
    \/ AnalyzeReport

Spec == Init /\ [][Next]_vars

\* The program runs on: it is never suspended for ever.
FairSpec == Spec /\ WF_vars(Next)

\* ------------------------------------------------------------ SpecLosses
\* calculate_losses as roll_dice calls it at line 162: the process is in the
\* first round of a battle, the table disabled, and the two lists hold the dice
\* just rolled.
LossArgs ==
    {a \in Args : /\ LoopCond(a.attacking_troops, a.defending_troops)
                  /\ a.no_precomputed_rolls
                  /\ a.trials = 1
                  /\ a.random_seed = 0}

InitLosses ==
    /\ args \in LossArgs
    /\ Starts([begin_trial(startup(Fresh)) EXCEPT !.pc = "roll_dice"])
    /\ attacker_rolls \in Rolls(Min(CommittedTroops(attacking_troops), MAX_ATTACKERS))
    /\ defender_rolls \in Rolls(Min(defending_troops, MAX_DEFENDERS))
    /\ call_args = <<>>
    /\ AnalyzerIdle
    /\ run2 = Fresh
    /\ rng_sync = FALSE

\* Line 162: the call sorts the caller's two lists and returns the losses.
CalculateLosses ==
    /\ pc = "roll_dice"
    /\ LET r == calculate_losses(attacker_rolls, defender_rolls)
       IN  /\ call_args' = <<attacker_rolls, defender_rolls>>
           /\ attacker_rolls' = r.attacker_rolls
           /\ defender_rolls' = r.defender_rolls
           /\ attacker_losses' = r.attacker_losses
           /\ defender_losses' = r.defender_losses
    /\ pc' = "rolled"
    /\ UNCHANGED <<args, MAX_DEFENDERS, precomputed, seeded, trial, attacking_troops,
                   defending_troops, total_attacker_losses, total_defender_losses,
                   maximum_rolls, non_maximum_rolls, is_max_roll, output>>
    /\ UNCHANGED <<anVars, pairVars>>

NextLosses == CalculateLosses

SpecLosses == InitLosses /\ [][NextLosses]_vars

\* -------------------------------------------------------------- SpecPair
\* Two processes of the simulator started on the same command line, stepping
\* together.  Python's generator is deterministic: two generators in the same
\* state that serve the same requests return the same values and stay in the
\* same state.  random.seed(n) puts a generator in a state that n determines; a
\* generator never seeded starts in a state of its own.
\* Seeded pairs run up to PairTrials trials, unseeded pairs (whose runs go their
\* own ways) one trial at most.
PairArgs ==
    {a \in [attacking_troops : (0 - BelowZero)..MaxAttack,
            defending_troops : (0 - BelowZero)..MaxDefend,
            capital : BOOLEAN,
            trials : 0..PairTrials,
            random_seed : 0..MaxSeed,
            no_precomputed_rolls : BOOLEAN] :
        a.random_seed # 0 \/ a.trials <= 1}

InitPair ==
    /\ args \in PairArgs
    /\ Starts(Fresh)
    /\ NoCall
    /\ AnalyzerIdle
    /\ run2 = Fresh
    /\ rng_sync = FALSE

\* The next step of process s draws random numbers: it is a round of a battle.
Draws(s) == s.pc = "battle" /\ LoopCond(s.attacking_troops, s.defending_troops)

AttackerDice(s) == Min(CommittedTroops(s.attacking_troops), MAX_ATTACKERS)
DefenderDice(s) == Min(s.defending_troops, s.MAX_DEFENDERS)
TableRound(s) ==
    UsesTable(CommittedTroops(s.attacking_troops), s.defending_troops,
              s.MAX_DEFENDERS, RollsOf(s.precomputed))

\* The calls of random.randint the round of process s makes, in order: one
\* index into the table, or one die after another.
Request(s) ==
    IF TableRound(s)
    THEN <<"randint", 0, Len(RollsOf(s.precomputed)) - 1>>
    ELSE <<"randint", 1, Sides, DiceRolled(AttackerDice(s)), DiceRolled(DefenderDice(s))>>

\* What the two rounds can return when both generators return the same values.
SameDraws(s1, s2) ==
    IF TableRound(s1)
    THEN {<<TableResult(CommittedTroops(s1.attacking_troops), s1.defending_troops,
                        s1.MAX_DEFENDERS, RollsOf(s1.precomputed), index),
            TableResult(CommittedTroops(s2.attacking_troops), s2.defending_troops,
                        s2.MAX_DEFENDERS, RollsOf(s2.precomputed), index)>> :
                index \in 0..(Len(RollsOf(s1.precomputed)) - 1)}
    ELSE {<<LiveResult(CommittedTroops(s1.attacking_troops), s1.defending_troops,
                       s1.MAX_DEFENDERS, RollsOf(s1.precomputed), losses),
            LiveResult(CommittedTroops(s2.attacking_troops), s2.defending_troops,
                       s2.MAX_DEFENDERS, RollsOf(s2.precomputed), losses)>> :
                losses \in LiveOutcomes[DiceRolled(AttackerDice(s1))][DiceRolled(DefenderDice(s1))]}

\* The states process s can be in after its next step (s itself when it is done).
Steps(s) ==
    IF s.pc = "start" THEN {startup(s)}
    ELSE IF s.pc = "trials" /\ MoreTrials(s) THEN {begin_trial(s)}
    ELSE IF s.pc = "trials" THEN {finish(s)}
    ELSE IF Draws(s) THEN {loop_body(s, r) : r \in RoundResults(s)}
    ELSE IF s.pc = "battle" THEN {end_trial(s, elapsed) : elapsed \in 0..MaxElapsed}
    ELSE {s}

\* Both processes run main up to the trial loop.
PairStartup ==
    /\ pc = "start" /\ run2.pc = "start"
    /\ Set(startup(Self))
    /\ run2' = startup(run2)
    /\ rng_sync' = (seeded' /\ run2'.seeded)
    /\ UNCHANGED <<args, lossVars, anVars>>

\* Both processes run a round of their battles.
PairRound ==
    /\ Draws(Self) /\ Draws(run2)
    /\ IF rng_sync /\ Request(Self) = Request(run2)
       THEN /\ \E rr \in SameDraws(Self, run2) :
                    Set(loop_body(Self, rr[1])) /\ run2' = loop_body(run2, rr[2])
            /\ rng_sync' = TRUE
       ELSE /\ \E n1 \in Steps(Self), n2 \in Steps(run2) : Set(n1) /\ run2' = n2
            /\ rng_sync' = FALSE
    /\ UNCHANGED <<args, lossVars, anVars>>

\* Both processes take their next steps, not both of them a round.
PairAdvance ==
    /\ pc # "start" /\ run2.pc # "start"
    /\ pc # "done" \/ run2.pc # "done"
    /\ ~(Draws(Self) /\ Draws(run2))
    /\ \E n1 \in Steps(Self), n2 \in Steps(run2) : Set(n1) /\ run2' = n2
    /\ rng_sync' = (rng_sync /\ ~Draws(Self) /\ ~Draws(run2))
    /\ UNCHANGED <<args, lossVars, anVars>>

NextPair ==
    \/ PairStartup
    \/ PairRound
    \/ PairAdvance

SpecPair == InitPair /\ [][NextPair]_vars

\* ================================================================ claims
\* The configured troop counts are ones the specification admits.
ValidTroops == args.attacking_troops >= 1 /\ args.defending_troops >= 0

\* simulate_battle has been entered: its locals are bound.
BattleEntered == pc = "battle" \/ trial > 0

\* simulate_battle has returned at least once.
BattleReturned == pc \in {"trials", "done"} /\ trial > 0

\* The step is one iteration of simulate_battle's loop.
RoundStep == pc = "battle" /\ pc' = "battle"

\* The defender's dice cap of the configured mode.
Cap == IF args.capital THEN 3 ELSE 2

\* The i-th highest value of the dice s, by rank and not by position.
IthHighest(s, i) ==
    CHOOSE v \in {s[j] : j \in DOMAIN s} :
        /\ Cardinality({j \in DOMAIN s : s[j] > v}) < i
        /\ Cardinality({j \in DOMAIN s : s[j] >= v}) >= i

IsDescending(s) == \A i \in 1..(Len(s) - 1) : s[i] >= s[i + 1]

\* The two lists hold the same dice, each as many times.
SameDice(s, u) ==
    /\ Len(s) = Len(u)
    /\ \A v \in 1..Sides :
         Cardinality({j \in DOMAIN s : s[j] = v}) = Cardinality({j \in DOMAIN u : u[j] = v})

\* C1: from every valid configuration, in both modes, with the table built or
\* disabled and whatever the dice and table indices drawn, simulate_battle
\* returns after finitely many rounds; when it has returned, attacking_troops <= 1
\* or defending_troops = 0; and entered with attacking_troops <= 1 it runs no
\* round: zero losses and zero maximal and non-maximal round counts.
C1_BattleTerminates ==
    /\ [](ValidTroops /\ BattleReturned =>
            attacking_troops <= 1 \/ defending_troops = 0)
    /\ [](ValidTroops /\ BattleEntered /\ args.attacking_troops <= 1 =>
            /\ total_attacker_losses = 0 /\ total_defender_losses = 0
            /\ maximum_rolls = 0 /\ non_maximum_rolls = 0)
    /\ ((ValidTroops /\ pc = "battle") ~> (pc = "trials"))

\* A battle that took a table round and live rounds has returned.
C1_Witness ==
    /\ ValidTroops /\ BattleReturned
    /\ precomputed # <<>> /\ maximum_rolls > 0 /\ non_maximum_rolls > 0

\* C2: in every state of simulate_battle started from a valid configuration, the
\* attacker has lost at most its initial troops minus 1 and the defender at most
\* its initial troops: attacking_troops >= 1 and defending_troops >= 0 throughout.
C2_LossesBounded ==
    ValidTroops /\ BattleEntered =>
        /\ total_attacker_losses <= args.attacking_troops - 1
        /\ total_defender_losses <= args.defending_troops
        /\ attacking_troops = args.attacking_troops - total_attacker_losses
        /\ defending_troops = args.defending_troops - total_defender_losses
        /\ attacking_troops >= 1
        /\ defending_troops >= 0

\* The attacker is down to the reserved troop after a table round.
C2_Witness ==
    /\ ValidTroops /\ pc = "battle"
    /\ precomputed # <<>> /\ maximum_rolls > 0
    /\ attacking_troops = 1 /\ total_attacker_losses = args.attacking_troops - 1
    /\ total_attacker_losses > 0

\* C3: every round, by table lookup or by live rolls, loses
\* min(attacker dice, defender dice) troops in all, with attacker dice
\* min(attacking_troops - 1, 3) and defender dice min(defending_troops, cap); that
\* is at least 1, so attacking_troops + defending_troops strictly decreases.
C3_RoundLoses ==
    [][RoundStep =>
        LET dice == Min(Min(attacking_troops - 1, 3), Min(defending_troops, Cap))
        IN  /\ attacker_losses' + defender_losses' = dice
            /\ dice >= 1
            /\ attacker_losses' >= 0 /\ defender_losses' >= 0
            /\ attacking_troops' = attacking_troops - attacker_losses'
            /\ defending_troops' = defending_troops - defender_losses'
            /\ attacking_troops' + defending_troops' < attacking_troops + defending_troops]_vars

\* A capital-mode table round has lost three troops, some on each side.
C3_Witness ==
    /\ pc = "battle" /\ args.capital /\ precomputed # <<>> /\ is_max_roll
    /\ attacker_losses + defender_losses = 3
    /\ attacker_losses > 0 /\ defender_losses > 0

\* The k-th die (1-based, of n) of the index-th element (0-based) of the
\* Cartesian product of n dice, the first die the outermost.
DieOf(index, k, n) == ((index \div Pow(Sides, n - k)) % Sides) + 1

\* What calculate_losses yields for the dice of the index-th element of the
\* product of 3 attacker dice and defenders defender dice.
ProductEntry(index, defenders) ==
    LET r == calculate_losses([k \in 1..3 |-> DieOf(index, k, 3 + defenders)],
                              [k \in 1..defenders |-> DieOf(index, 3 + k, 3 + defenders)])
    IN  <<r.attacker_losses, r.defender_losses>>

\* The table the claim describes for each cap, evaluated once.
RECURSIVE ProductEntries(_, _, _)
ProductEntries(lo, hi, defenders) ==
    IF lo = hi THEN <<ProductEntry(lo, defenders)>>
    ELSE ProductEntries(lo, (lo + hi) \div 2, defenders)
            \o ProductEntries(((lo + hi) \div 2) + 1, hi, defenders)

ProductTable == [defenders \in {2, 3} |->
                    ProductEntries(0, Pow(Sides, 3 + defenders) - 1, defenders)]

\* C5: once precompute_max_dice_rolls has run at startup, the table has
\* 6^5 = 7776 entries in standard mode and 6^6 = 46656 in capital mode, one per
\* element of the full Cartesian product of 3 attacker dice and cap defender
\* dice in enumeration order, each the loss pair calculate_losses yields for
\* that element's dice.  (Stated of the state startup leaves; the list is not
\* written again.)
C5_TableIsProduct ==
    /\ [](pc = "trials" /\ trial = 0 /\ ~args.no_precomputed_rolls =>
            /\ Len(PRECOMPUTED_ROLLS) = IF args.capital THEN 46656 ELSE 7776
            /\ PRECOMPUTED_ROLLS = ProductTable[Cap])
    /\ [][pc # "start" => precomputed' = precomputed]_vars

\* The capital-mode table is built and a battle has drawn from it.
C5_Witness ==
    /\ args.capital /\ ~args.no_precomputed_rolls
    /\ Len(PRECOMPUTED_ROLLS) = 46656
    /\ maximum_rolls > 0

\* C6: a run configured with a non-positive attacking troop count or a negative
\* defending troop count is rejected before any simulation starts: no battle is
\* simulated and no trial record is emitted.
C6_InvalidTroopsRejected ==
    ~ValidTroops => ~BattleEntered /\ output = <<>>

\* C8: in every round is_max_roll is true iff the attacker rolls 3 dice and the
\* defender rolls cap dice (2 standard, 3 capital), whether or not the table is
\* built, and the round is added to exactly one of maximum_rolls and
\* non_maximum_rolls according to that flag, both counters starting at zero.
C8_MaximalCounted ==
    /\ [][RoundStep =>
            /\ is_max_roll' = (Min(attacking_troops - 1, 3) = 3 /\ Min(defending_troops, Cap) = Cap)
            /\ maximum_rolls' = maximum_rolls + (IF is_max_roll' THEN 1 ELSE 0)
            /\ non_maximum_rolls' = non_maximum_rolls + (IF is_max_roll' THEN 0 ELSE 1)]_vars
    /\ [][pc = "trials" /\ pc' = "battle" =>
            maximum_rolls' = 0 /\ non_maximum_rolls' = 0]_vars

\* A maximal round resolved by live rolls, the table disabled, counted maximal,
\* followed by a round counted non-maximal.
C8_Witness ==
    /\ pc = "battle" /\ precomputed = <<>> /\ args.no_precomputed_rolls
    /\ maximum_rolls = 1 /\ non_maximum_rolls = 1 /\ ~is_max_roll

\* C10: every trial record line the simulator writes is accepted by the analysis
\* tool's per-line parser: no written record leads it to a parse error.
C10_RecordsParse ==
    an_pc # "ValueError"

\* C4: for attacker and defender rolls of 1 to 3 dice with values 1..6, in any
\* order, calculate_losses returns as defender_losses the number of positions
\* i <= min(lengths) at which the i-th highest attacker die is strictly greater
\* than the i-th highest defender die, and as attacker_losses the number of the
\* other paired positions (a tie is an attacker loss: [3] against [3] gives
\* (1, 0)); the dice beyond the shorter list's length have no effect.
C4_LossesByRank ==
    pc = "rolled" =>
        LET a == call_args[1]
            d == call_args[2]
            n == Min(Len(a), Len(d))
            won == {i \in 1..n : IthHighest(a, i) > IthHighest(d, i)}
        IN  /\ Len(a) \in 1..3 /\ Len(d) \in 1..3
            /\ defender_losses = Cardinality(won)
            /\ attacker_losses = n - Cardinality(won)
            /\ (a = <<3>> /\ d = <<3>> => attacker_losses = 1 /\ defender_losses = 0)

\* Unsorted dice of unequal counts with a tie: the tie is the attacker's loss, and
\* the attacker's lowest die plays no part.
C4_Witness ==
    /\ pc = "rolled"
    /\ call_args = << <<2, 6, 4>>, <<4, 5>> >>
    /\ attacker_losses = 1 /\ defender_losses = 1

\* C9 (as the claim states it): calculate_losses leaves its two input sequences
\* unchanged: the caller sees their elements in the same order after the call as
\* before it.
C9_InputsUnchanged ==
    pc = "rolled" => attacker_rolls = call_args[1] /\ defender_rolls = call_args[2]

\* C9 (amended): calculate_losses sorts its two input lists in place: after the
\* call each holds the dice it held before, in descending order, so the caller
\* sees the order it passed only when that order was already descending.
C9_InputsSortedInPlace ==
    pc = "rolled" =>
        /\ SameDice(attacker_rolls, call_args[1]) /\ IsDescending(attacker_rolls)
        /\ SameDice(defender_rolls, call_args[2]) /\ IsDescending(defender_rolls)
        /\ (attacker_rolls = call_args[1]) = IsDescending(call_args[1])
        /\ (defender_rolls = call_args[2]) = IsDescending(call_args[2])

\* The call has reordered an attacker list that was not descending.
C9_Witness ==
    /\ pc = "rolled"
    /\ call_args[1] = <<1, 6, 3>> /\ attacker_rolls = <<6, 3, 1>>
    /\ call_args[2] = <<5, 2>> /\ defender_rolls = <<5, 2>>

\* A trial record without its elapsed time.
WithoutElapsed(lines) == [i \in 1..Len(lines) |-> SubSeq(lines[i], 1, 5)]

\* C7: two runs of the trial driver with the same non-zero seed and the same
\* inputs write the same sequence of trial records but for the elapsed times:
\* the generators stay in step, so every die and every table index drawn is the
\* same in both.
C7_SeedDeterminesRecords ==
    args.random_seed # 0 =>
        /\ WithoutElapsed(output) = WithoutElapsed(run2.output)
        /\ pc = run2.pc
        /\ pc # "start" => rng_sync

\* Two seeded runs have ended with the same two records but for an elapsed time,
\* the first trial with a table round, the second trial with another outcome.
C7_Witness ==
    /\ args.random_seed # 0 /\ pc = "done" /\ run2.pc = "done"
    /\ precomputed # <<>>
    /\ Len(output) = 2 /\ Len(run2.output) = 2
    /\ output[1][4].int > 0
    /\ output[1][6] # run2.output[1][6]
    /\ SubSeq(output[1], 1, 5) # SubSeq(output[2], 1, 5)

=============================================================================
